---- MODULE Spec2Model ----
(***************************************************************************)
(* Event-based backtesting engine of src/src/backtest.py: the ledger       *)
(* (amount, units, trades), the position flag, the two order primitives,   *)
(* close_out, and the three strategy loops of BacktestLongOnly and         *)
(* BacktestLongShort.                                                      *)
(*                                                                         *)
(* Numbers.  Prices, unit counts, windows and thresholds are integers.     *)
(* Cash is kept in hundredths of the currency unit and the proportional    *)
(* cost ptc in percent, so that (units * price) * (1 + ptc) + ftc is exact *)
(* integer arithmetic.  Floating-point rounding is not modelled: rolling   *)
(* means are compared as exact rationals.                                  *)
(***************************************************************************)
EXTENDS Integers, Sequences, FiniteSets, TLC

VARIABLES
    data,            \* self.data: the prepared rows, fixed at construction
    policy,          \* the class of the engine: "LongOnly" or "LongShort"
    initial_amount,  \* self.initial_amount (hundredths)
    ftc,             \* self.ftc (currency units)
    ptc,             \* self.ptc (percent)
    amount,          \* self.amount (hundredths)
    units,           \* self.units
    position,        \* self.position: 0 flat, 1 long, -1 short
    trades,          \* self.trades
    pc,              \* "idle", "loop", "done" (summary printed), or the exception that ended the run
    run,             \* the run in progress or last started: <<strategy, first parameter, second parameter>>
    bar,             \* the loop variable bar of the run method; Unbound before the first iteration
    fills,           \* the narration of the run: one record per order and per close_out
    prev             \* <<outcome>> of the previous run when the current run repeats it, else <<>>

vars == <<data, policy, initial_amount, ftc, ptc, amount, units, position,
          trades, pc, run, bar, fills, prev>>

----------------------------------------------------------------------------
(* Bounds of the model *)

NBars == 4          \* rows of the raw price series
MaxWindow == 3      \* window parameters range over -1 .. MaxWindow
Capital == 3        \* the initial capital, in currency units

\* Raw prices: positive ones, and the degenerate 0 and -1
RawPrices == {-1, 0, 1, 2}
Windows == (-1) .. MaxWindow
\* Mean-reversion thresholds
Thresholds == {0, 1}

\* (ftc, ptc) given to the constructor: valid settings and, last, two the
\* interface excludes (a negative fixed cost, a proportional cost of 100%).
CostSettings ==
    { <<0, 0>>, <<1, 50>>, <<-1, 0>>, <<0, 100>> }

Cents(x) == x * 100

Abs(x) == IF x < 0 THEN -x ELSE x

----------------------------------------------------------------------------
(* get_data *)

\* A row of the raw series survives dropna() unless its log return is NaN.
\* log(cur / prior) is NaN when the ratio is negative or 0/0; it is +inf or
\* -inf (kept) when exactly one of the two prices is 0.
KeepRow(prior, cur) ==
    \/ prior = 0 /\ cur > 0
    \/ prior # 0 /\ cur = 0
    \/ prior * cur > 0

RECURSIVE RowsFrom(_, _)
RowsFrom(raw, i) ==
    IF i > Len(raw) THEN <<>>
    ELSE LET rest == RowsFrom(raw, i + 1) IN
         IF KeepRow(raw[i - 1], raw[i])
         THEN <<[price |-> raw[i], prior |-> raw[i - 1]]>> \o rest
         ELSE rest

\* The first raw row has no prior price: its return is NaN and it is dropped.
get_data(raw) == RowsFrom(raw, 2)

\* len(self.data) and self.data.price.iloc[b], bars numbered from 0
NData == Len(data)
get_date_price(b) == data[b + 1].price

----------------------------------------------------------------------------
(* Rolling indicators: self.data[col].rolling(w).mean() *)

\* rolling(w) accepts w >= 0 and raises ValueError for w < 0
RollingRaises(w) == w < 0

\* The rolling mean at bar b is a number only when the window holds w >= 1
\* observations (min_periods = w); otherwise it is NaN, and every
\* comparison with NaN is False.
RollDefined(w, b) == w >= 1 /\ b >= w - 1

RECURSIVE PriceSum(_, _)
PriceSum(lo, hi) ==
    IF lo > hi THEN 0 ELSE get_date_price(lo) + PriceSum(lo + 1, hi)

\* w * (rolling mean of price over the w bars ending at b)
RollSum(w, b) == PriceSum(b - w + 1, b)

\* data["SMA1"].iloc[b] > data["SMA2"].iloc[b]
SMA1_gt_SMA2(SMA1, SMA2, b) ==
    /\ RollDefined(SMA1, b) /\ RollDefined(SMA2, b)
    /\ RollSum(SMA1, b) * SMA2 > RollSum(SMA2, b) * SMA1

\* data["SMA1"].iloc[b] < data["SMA2"].iloc[b]
SMA1_lt_SMA2(SMA1, SMA2, b) ==
    /\ RollDefined(SMA1, b) /\ RollDefined(SMA2, b)
    /\ RollSum(SMA1, b) * SMA2 < RollSum(SMA2, b) * SMA1

\* data["price"].iloc[b] < data["SMA"].iloc[b] - threshold
price_lt_SMA_minus(SMA, threshold, b) ==
    /\ RollDefined(SMA, b)
    /\ get_date_price(b) * SMA < RollSum(SMA, b) - threshold * SMA

\* data["price"].iloc[b] > data["SMA"].iloc[b] + threshold
price_gt_SMA_plus(SMA, threshold, b) ==
    /\ RollDefined(SMA, b)
    /\ get_date_price(b) * SMA > RollSum(SMA, b) + threshold * SMA

\* data["price"].iloc[b] >= data["SMA"].iloc[b]
price_ge_SMA(SMA, b) ==
    RollDefined(SMA, b) /\ get_date_price(b) * SMA >= RollSum(SMA, b)

\* data["price"].iloc[b] <= data["SMA"].iloc[b]
price_le_SMA(SMA, b) ==
    RollDefined(SMA, b) /\ get_date_price(b) * SMA <= RollSum(SMA, b)

\* The return of a row is log(price / prior): finite when neither is 0,
\* infinite otherwise; rolling() turns infinities into NaN.
ReturnFinite(b) == data[b + 1].price # 0 /\ data[b + 1].prior # 0

MomentumDefined(m, b) ==
    RollDefined(m, b) /\ \A i \in (b - m + 1) .. b : ReturnFinite(i)

RECURSIVE ProdPrice(_, _)
ProdPrice(lo, hi) ==
    IF lo > hi THEN 1 ELSE Abs(data[lo + 1].price) * ProdPrice(lo + 1, hi)

RECURSIVE ProdPrior(_, _)
ProdPrior(lo, hi) ==
    IF lo > hi THEN 1 ELSE Abs(data[lo + 1].prior) * ProdPrior(lo + 1, hi)

\* The sum of the log returns of a window is log(ProdPrice / ProdPrior), so
\* the sign of the rolling mean is the order of the two products.
\* data["momentum"].iloc[b] > 0
momentum_gt_0(m, b) ==
    MomentumDefined(m, b) /\ ProdPrice(b - m + 1, b) > ProdPrior(b - m + 1, b)

\* data["momentum"].iloc[b] < 0
momentum_lt_0(m, b) ==
    MomentumDefined(m, b) /\ ProdPrice(b - m + 1, b) < ProdPrior(b - m + 1, b)

\* the long-short exit test made strict, as the long-only one is
momentum_le_0_Strict(m, b) ==
    MomentumDefined(m, b) /\ ProdPrice(b - m + 1, b) < ProdPrior(b - m + 1, b)

\* data["momentum"].iloc[b] <= 0
momentum_le_0(m, b) ==
    MomentumDefined(m, b) /\ ProdPrice(b - m + 1, b) <= ProdPrior(b - m + 1, b)

----------------------------------------------------------------------------
(* Arguments of the order methods: None, a number, or the string "all" *)

None == [tag |-> "none", val |-> 0]
Num(n) == [tag |-> "num", val |-> n]
All == [tag |-> "all", val |-> 0]

\* Python truth of an argument: None and 0 are false, "all" is true
Truthy(a) == a.tag = "all" \/ (a.tag = "num" /\ a.val # 0)

\* int(a / b) for b # 0: the quotient truncated toward zero
IntDiv(a, b) ==
    LET q == Abs(a) \div Abs(b) IN
    IF (a < 0) = (b < 0) THEN q ELSE -q

----------------------------------------------------------------------------
(* The engine's mutable fields as a record, and the methods as functions   *)
(* on it.  raised names the exception that is propagating, "" if none:     *)
(* while one propagates every later statement of the run is skipped.       *)

NoException == ""

Raise(L, exception) == [L EXCEPT !.raised = exception]

Raised(L) == L.raised # NoException

\* One line of the run's narration.  budget tells whether the unit count
\* was converted from a cash amount; before is self.units before the line.
Fill(b, side, u, price, before, budget) ==
    [bar |-> b, side |-> side, units |-> u, price |-> price,
     before |-> before, budget |-> budget]

\* int(amount / price) with price = 0 (a numpy float): the quotient is inf
\* or, for amount = 0, nan, and int() of either raises.
BudgetRaises(price) == price = 0

BudgetException(amt) ==
    IF amt = 0 THEN "ValueError(int)" ELSE "OverflowError(int)"

\* place_buy_order charging no fixed cost
place_buy_order_NoFixedCost(L, b, units_, amount_) ==
    LET price == get_date_price(b) IN
    IF Raised(L) THEN L
    ELSE IF units_ = None /\ BudgetRaises(price)
    THEN Raise(L, BudgetException(amount_.val))
    ELSE LET u == IF units_ = None THEN IntDiv(amount_.val, Cents(price))
                  ELSE units_.val
         IN [L EXCEPT !.amount = @ - ((u * price) * (100 + ptc)),
                      !.units = @ + u,
                      !.trades = @ + 1,
                      !.fills = Append(@, Fill(b, "buy", u, price, L.units, units_ = None))]

place_buy_order(L, b, units_, amount_) ==
    LET price == get_date_price(b) IN
    IF Raised(L) THEN L
    ELSE IF units_ = None /\ BudgetRaises(price)
    THEN Raise(L, BudgetException(amount_.val))
    ELSE LET u == IF units_ = None THEN IntDiv(amount_.val, Cents(price))
                  ELSE units_.val
         IN [L EXCEPT !.amount = @ - ((u * price) * (100 + ptc) + Cents(ftc)),
                      !.units = @ + u,
                      !.trades = @ + 1,
                      !.fills = Append(@, Fill(b, "buy", u, price, L.units, units_ = None))]

\* place_sell_order debiting the proceeds instead of crediting them
place_sell_order_Debits(L, b, units_, amount_) ==
    LET price == get_date_price(b) IN
    IF Raised(L) THEN L
    ELSE IF units_ = None /\ BudgetRaises(price)
    THEN Raise(L, BudgetException(amount_.val))
    ELSE LET u == IF units_ = None THEN IntDiv(amount_.val, Cents(price))
                  ELSE units_.val
         IN [L EXCEPT !.amount = @ - ((u * price) * (100 - ptc) - Cents(ftc)),
                      !.units = @ - u,
                      !.trades = @ + 1,
                      !.fills = Append(@, Fill(b, "sell", u, price, L.units, units_ = None))]

place_sell_order(L, b, units_, amount_) ==
    LET price == get_date_price(b) IN
    IF Raised(L) THEN L
    ELSE IF units_ = None /\ BudgetRaises(price)
    THEN Raise(L, BudgetException(amount_.val))
    ELSE LET u == IF units_ = None THEN IntDiv(amount_.val, Cents(price))
                  ELSE units_.val
         IN [L EXCEPT !.amount = @ + ((u * price) * (100 - ptc) - Cents(ftc)),
                      !.units = @ - u,
                      !.trades = @ + 1,
                      !.fills = Append(@, Fill(b, "sell", u, price, L.units, units_ = None))]

close_out(L, b) ==
    LET price == get_date_price(b) IN
    IF Raised(L) THEN L
    ELSE [L EXCEPT !.amount = @ + Cents(L.units * price),
                   !.units = 0,
                   !.trades = @ + 1,
                   !.fills = Append(@, Fill(b, "close", L.units, price, L.units, FALSE))]

\* print_net_wealth: self.units * price + self.amount, here of c cash and u
\* units valued at the price of bar b
net_wealth(c, u, b) == Cents(u * get_date_price(b)) + c

\* self.position = p, reached only if no exception is propagating
set_position(L, p) == IF Raised(L) THEN L ELSE [L EXCEPT !.position = p]

go_long(L, b, units_, amount_) ==
    LET L1 == IF L.position = -1
              THEN place_buy_order(L, b, Num(-L.units), None)
              ELSE L
    IN  IF Truthy(units_) THEN place_buy_order(L1, b, units_, None)
        ELSE IF Truthy(amount_)
             THEN place_buy_order(L1, b, None,
                                  IF amount_ = All THEN Num(L1.amount) ELSE amount_)
             ELSE L1

\* go_short selling the holding and the new short side as one order
go_short_SingleOrder(L, b, units_, amount_) ==
    LET held == IF L.position = 1 THEN L.units ELSE 0
        price == get_date_price(b)
        amt == IF amount_ = All THEN L.amount + Cents(held * price) ELSE amount_.val
    IN  IF Truthy(units_)
        THEN place_sell_order(L, b, Num(held + units_.val), None)
        ELSE IF ~Truthy(amount_) THEN L
        ELSE IF BudgetRaises(price) THEN Raise(L, BudgetException(amt))
        ELSE place_sell_order(L, b, Num(held + IntDiv(amt, Cents(price))), None)

go_short(L, b, units_, amount_) ==
    LET L1 == IF L.position = 1
              THEN place_sell_order(L, b, Num(L.units), None)
              ELSE L
    IN  IF Truthy(units_) THEN place_sell_order(L1, b, units_, None)
        ELSE IF Truthy(amount_)
             THEN place_sell_order(L1, b, None,
                                   IF amount_ = All THEN Num(L1.amount) ELSE amount_)
             ELSE L1

----------------------------------------------------------------------------
(* One iteration of each strategy loop *)

LongOnly_sma_bar(L, b, SMA1, SMA2) ==
    IF L.position = 0
    THEN IF SMA1_gt_SMA2(SMA1, SMA2, b)
         THEN set_position(place_buy_order(L, b, None, Num(L.amount)), 1)
         ELSE L
    ELSE IF L.position = 1
    THEN IF SMA1_lt_SMA2(SMA1, SMA2, b)
         THEN set_position(place_sell_order(L, b, Num(L.units), None), 0)
         ELSE L
    ELSE L

\* the long-only momentum loop with the exit of the long-short one
LongOnly_momentum_bar_ExitShort(L, b, momentum) ==
    IF L.position = 0
    THEN IF momentum_gt_0(momentum, b)
         THEN set_position(place_buy_order(L, b, None, Num(L.amount)), 1)
         ELSE L
    ELSE IF L.position = 1
    THEN IF momentum_lt_0(momentum, b)
         THEN set_position(place_sell_order(L, b, Num(L.units), None), -1)
         ELSE L
    ELSE L

LongOnly_momentum_bar(L, b, momentum) ==
    IF L.position = 0
    THEN IF momentum_gt_0(momentum, b)
         THEN set_position(place_buy_order(L, b, None, Num(L.amount)), 1)
         ELSE L
    ELSE IF L.position = 1
    THEN IF momentum_lt_0(momentum, b)
         THEN set_position(place_sell_order(L, b, Num(L.units), None), 0)
         ELSE L
    ELSE L

LongOnly_mean_reversion_bar(L, b, SMA, threshold) ==
    IF L.position = 0
    THEN IF price_lt_SMA_minus(SMA, threshold, b)
         THEN set_position(place_buy_order(L, b, None, Num(L.amount)), 1)
         ELSE L
    ELSE IF L.position = 1
    THEN IF price_ge_SMA(SMA, b)
         THEN set_position(place_sell_order(L, b, Num(L.units), None), 0)
         ELSE L
    ELSE L

\* Two consecutive if statements: the second reads the position the first
\* may have set.
LongShort_sma_bar(L, b, SMA1, SMA2) ==
    LET L1 == IF L.position \in {0, -1} /\ SMA1_gt_SMA2(SMA1, SMA2, b)
              THEN set_position(go_long(L, b, None, All), 1)
              ELSE L
    IN  IF ~Raised(L1) /\ L1.position \in {0, 1} /\ SMA1_lt_SMA2(SMA1, SMA2, b)
        THEN set_position(go_short(L1, b, None, All), -1)
        ELSE L1

\* the long-short momentum loop entering short whatever the position is
LongShort_momentum_bar_Unguarded(L, b, momentum) ==
    LET L1 == IF L.position \in {0, -1} /\ momentum_gt_0(momentum, b)
              THEN set_position(go_long(L, b, None, All), 1)
              ELSE L
    IN  IF ~Raised(L1) /\ momentum_le_0(momentum, b)
        THEN set_position(go_short(L1, b, None, All), -1)
        ELSE L1

LongShort_momentum_bar(L, b, momentum) ==
    LET L1 == IF L.position \in {0, -1} /\ momentum_gt_0(momentum, b)
              THEN set_position(go_long(L, b, None, All), 1)
              ELSE L
    IN  IF ~Raised(L1) /\ L1.position \in {0, 1} /\ momentum_le_0(momentum, b)
        THEN set_position(go_short(L1, b, None, All), -1)
        ELSE L1

LongShort_mean_reversion_bar(L, b, SMA, threshold) ==
    IF L.position = 0
    THEN IF price_lt_SMA_minus(SMA, threshold, b)
         THEN set_position(go_long(L, b, None, Num(initial_amount)), 1)
         ELSE IF price_gt_SMA_plus(SMA, threshold, b)
         THEN set_position(go_short(L, b, None, Num(initial_amount)), -1)
         ELSE L
    ELSE IF L.position = 1
    THEN IF price_ge_SMA(SMA, b)
         THEN set_position(place_sell_order(L, b, Num(L.units), None), 0)
         ELSE L
    ELSE IF L.position = -1
    THEN IF price_le_SMA(SMA, b)
         THEN set_position(place_buy_order(L, b, Num(-L.units), None), 0)
         ELSE L
    ELSE L

\* A run is <<strategy, SMA1, SMA2>>, <<strategy, momentum, 0>> or
\* <<strategy, SMA, threshold>>.
Strategy(r) == r[1]

\* The loop body of the run method that r names, for the engine's class
LoopBody(L, b, r) ==
    IF policy = "LongOnly"
    THEN CASE Strategy(r) = "sma" -> LongOnly_sma_bar(L, b, r[2], r[3])
           [] Strategy(r) = "momentum" -> LongOnly_momentum_bar(L, b, r[2])
           [] Strategy(r) = "mean_reversion" ->
                  LongOnly_mean_reversion_bar(L, b, r[2], r[3])
    ELSE CASE Strategy(r) = "sma" -> LongShort_sma_bar(L, b, r[2], r[3])
           [] Strategy(r) = "momentum" -> LongShort_momentum_bar(L, b, r[2])
           [] Strategy(r) = "mean_reversion" ->
                  LongShort_mean_reversion_bar(L, b, r[2], r[3])

\* range(start, len(self.data)): SMA2 for the SMA strategy, the single
\* window for the other two
RangeStart(r) == IF Strategy(r) = "sma" THEN r[3] ELSE r[2]

----------------------------------------------------------------------------
(* State machine *)

Unbound == -1

Ledger ==
    [amount |-> amount, units |-> units, trades |-> trades,
     position |-> position, fills |-> fills, raised |-> NoException]

\* What a finished run leaves behind: how it ended, its narration and summary
Outcome ==
    [pc |-> pc, fills |-> fills, amount |-> amount, trades |-> trades]

NoRun == <<"none", 0, 0>>

\* The run method returned or raised
Ended == pc \notin {"idle", "loop"}
Faulted == pc \notin {"idle", "loop", "done"}

\* BacktestBase.__init__ on a prepared series
Init ==
    /\ \E raw \in [1 .. NBars -> RawPrices] : data = get_data(raw)
    /\ policy \in {"LongOnly", "LongShort"}
    /\ initial_amount = Cents(Capital)
    /\ \E c \in CostSettings : ftc = c[1] /\ ptc = c[2]
    /\ amount = initial_amount
    /\ units = 0
    /\ position = 0
    /\ trades = 0
    /\ pc = "idle"
    /\ run = NoRun
    /\ bar = Unbound
    /\ fills = <<>>
    /\ prev = <<>>

\* Reset without self.amount = self.initial_amount
Reset_KeepsAmount(r, raises) ==
    /\ pc # "loop"
    /\ position' = 0
    /\ trades' = 0
    /\ pc' = IF raises THEN "ValueError(window)" ELSE "loop"
    /\ run' = r
    /\ bar' = Unbound
    /\ fills' = <<>>
    /\ prev' = IF pc # "idle" /\ r = run THEN <<Outcome>> ELSE <<>>
    /\ UNCHANGED <<data, policy, initial_amount, ftc, ptc, units, amount>>

\* The statements of a run method before its loop: the three resets, then
\* the rolling columns, which raise for a negative window.
Reset(r, raises) ==
    /\ pc # "loop"
    /\ position' = 0
    /\ trades' = 0
    /\ amount' = initial_amount
    /\ pc' = IF raises THEN "ValueError(window)" ELSE "loop"
    /\ run' = r
    /\ bar' = Unbound
    /\ fills' = <<>>
    /\ prev' = IF pc # "idle" /\ r = run THEN <<Outcome>> ELSE <<>>
    /\ UNCHANGED <<data, policy, initial_amount, ftc, ptc, units>>

run_sma_strategy ==
    \E SMA1 \in Windows, SMA2 \in Windows :
        Reset(<<"sma", SMA1, SMA2>>,
              RollingRaises(SMA1) \/ RollingRaises(SMA2))

run_momentum_strategy ==
    \E momentum \in Windows :
        Reset(<<"momentum", momentum, 0>>,
              RollingRaises(momentum))

run_mean_reversion_strategy ==
    \E SMA \in Windows, threshold \in Thresholds :
        Reset(<<"mean_reversion", SMA, threshold>>,
              RollingRaises(SMA))

\* The bar the for statement would bind next
NextBar == IF bar = Unbound THEN RangeStart(run) ELSE bar + 1

\* One iteration of the for loop
Iterate ==
    /\ pc = "loop"
    /\ NextBar < NData
    /\ LET L == LoopBody(Ledger, NextBar, run) IN
        /\ amount' = L.amount
        /\ units' = L.units
        /\ trades' = L.trades
        /\ position' = L.position
        /\ fills' = L.fills
        /\ pc' = IF Raised(L) THEN L.raised ELSE "loop"
    /\ bar' = NextBar
    /\ UNCHANGED <<data, policy, initial_amount, ftc, ptc, run, prev>>

\* self.close_out(bar) after the loop.  If the range was empty, bar was
\* never bound and reading it raises UnboundLocalError.
Finish ==
    /\ pc = "loop"
    /\ NextBar >= NData
    /\ IF bar = Unbound
       THEN /\ pc' = "UnboundLocalError(bar)"
            /\ UNCHANGED <<amount, units, trades, fills>>
       ELSE LET L == close_out(Ledger, bar) IN
            /\ amount' = L.amount
            /\ units' = L.units
            /\ trades' = L.trades
            /\ fills' = L.fills
            /\ pc' = "done"
    /\ UNCHANGED <<data, policy, initial_amount, ftc, ptc, position, run, bar, prev>>

Next ==
    \/ run_sma_strategy
    \/ run_momentum_strategy
    \/ run_mean_reversion_strategy
    \/ Iterate
    \/ Finish

Spec == Init /\ [][Next]_vars

----------------------------------------------------------------------------
(* Longer series of positive prices, one run per engine *)

SeriesPrices == {1, 2, 3, 4}
SeriesCosts == { <<0, 0>>, <<2, 50>> }
SeriesThresholds == {-1, 0, 1}

\* the run method calls with windows the rolling columns accept
SeriesRuns ==
    { <<"sma", SMA1, SMA2>> : SMA1 \in 1 .. MaxWindow, SMA2 \in 1 .. MaxWindow }
        \cup { <<"momentum", momentum, 0>> : momentum \in 1 .. MaxWindow }
        \cup { <<"mean_reversion", SMA, threshold>> :
                 SMA \in 1 .. MaxWindow, threshold \in SeriesThresholds }

\* BacktestBase.__init__ on a prepared series of two to NBars + 1 rows
InitSeries ==
    /\ \E n \in 2 .. (NBars + 1) :
           \E raw \in [1 .. n -> SeriesPrices] : data = get_data(raw)
    /\ policy \in {"LongOnly", "LongShort"}
    /\ initial_amount = Cents(Capital)
    /\ \E c \in SeriesCosts : ftc = c[1] /\ ptc = c[2]
    /\ amount = initial_amount
    /\ units = 0
    /\ position = 0
    /\ trades = 0
    /\ pc = "idle"
    /\ run = NoRun
    /\ bar = Unbound
    /\ fills = <<>>
    /\ prev = <<>>

\* the first run method called on a fresh engine
FirstRun ==
    /\ pc = "idle"
    /\ \E r \in SeriesRuns : Reset(r, FALSE)

NextSeries ==
    \/ FirstRun
    \/ Iterate
    \/ Finish

SpecSeries == InitSeries /\ [][NextSeries]_vars

----------------------------------------------------------------------------
(* Inputs the interface admits: positive prices, a fixed cost >= 0 and a   *)
(* proportional cost in [0, 1).                                            *)

PositivePrices ==
    \A i \in 1 .. NData : data[i].price > 0 /\ data[i].prior > 0

ValidCosts == ftc >= 0 /\ ptc \in 0 .. 99

WellFormed == PositivePrices /\ ValidCosts

\* the window parameters of a run
WindowsOf(r) == IF Strategy(r) = "sma" THEN {r[2], r[3]} ELSE {r[2]}

\* every window of the run is a positive integer smaller than the series
ValidWindows(r) ==
    r # NoRun /\ \A w \in WindowsOf(r) : w \in 1 .. (NData - 1)

----------------------------------------------------------------------------
(* Reading the narration of a run *)

IsOrder(f) == f.side \in {"buy", "sell"}

\* orders placed by place_buy_order / place_sell_order during the run
OrderFills == Len(SelectSeq(fills, IsOrder))

\* units held after the fill
After(f) ==
    CASE f.side = "buy" -> f.before + f.units
      [] f.side = "sell" -> f.before - f.units
      [] f.side = "close" -> 0

LastFill == fills[Len(fills)]

----------------------------------------------------------------------------
(* C1 *)

\* C1: at the end of every run the trade count equals the number of fills
\* applied, the close-out adding one exactly when the position was not flat
\* after the last bar (close_out leaves self.position as the loop left it).
\* Stated for inputs and windows the interface admits.
C1_TradeCountIsFillCount ==
    (pc = "done" /\ WellFormed /\ ValidWindows(run)) =>
        trades = OrderFills + (IF position # 0 THEN 1 ELSE 0)

----------------------------------------------------------------------------
(* C2 *)

\* C2: when a run ends the engine is flat: no units are held and the
\* position state is flat.  Stated for inputs the interface admits.
C2_FlatWhenDone ==
    (pc = "done" /\ WellFormed) => units = 0 /\ position = 0

----------------------------------------------------------------------------
(* C3 *)

\* the first state of a run: the resets are done, no bar is bound yet
RunStarted == run # NoRun /\ bar = Unbound /\ pc # "idle"

\* C3: every run on an engine, whatever ran before it and however that
\* ended, starts from the initial capital with no units, flat and with no
\* trades counted; and a run that repeats the previous run's strategy and
\* parameters ends the same way with the same fills and the same summary.
C3_RunsDoNotLeak ==
    /\ RunStarted =>
          amount = initial_amount /\ units = 0 /\ position = 0 /\ trades = 0
    /\ (Ended /\ prev # <<>>) => Outcome = prev[1]

\* a repeated run has ended after trading, and the run before it was
\* closed out while holding units
C3_Witness ==
    /\ pc = "done" /\ prev # <<>>
    /\ Len(fills) >= 2
    /\ LastFill.before # 0
    /\ amount # initial_amount

----------------------------------------------------------------------------
(* C4 *)

\* C4: a long-only engine is never short.
C4_LongOnlyNeverShort ==
    policy = "LongOnly" => position # -1

\* a long-only run has entered a position and sold it again
C4_Witness ==
    /\ policy = "LongOnly" /\ pc = "loop" /\ position = 0
    /\ Len(fills) = 2 /\ fills[2].side = "sell" /\ fills[2].units > 0

----------------------------------------------------------------------------
(* C5 *)

\* the position goes from long to short or from short to long
Flip == position * position' = -1

\* the two fills a step appended to the narration
FlipClose == fills'[Len(fills) + 1]
FlipOpen == fills'[Len(fills) + 2]

\* C5: every step that takes the position from one side to the other
\* applies exactly two fills on that bar: the first trades the whole
\* holding and leaves no units, the second starts from no units and opens
\* the new side; the trade count rises by 2.
C5_FlipIsTwoFills ==
    [][Flip =>
         /\ trades' = trades + 2
         /\ Len(fills') = Len(fills) + 2
         /\ FlipClose.bar = bar' /\ FlipOpen.bar = bar'
         /\ FlipClose.side = (IF position = 1 THEN "sell" ELSE "buy")
         /\ FlipOpen.side = FlipClose.side
         /\ FlipClose.before = units /\ ~FlipClose.budget
         /\ After(FlipClose) = 0
         /\ FlipOpen.before = 0 /\ FlipOpen.budget
         /\ After(FlipOpen) = units'
      ]_vars

\* a long holding was sold and a short one opened on the same bar
C5_Witness ==
    /\ policy = "LongShort" /\ position = -1 /\ Len(fills) >= 3
    /\ LET c == fills[Len(fills) - 1]
           o == fills[Len(fills)]
       IN /\ c.bar = bar /\ o.bar = bar
          /\ c.side = "sell" /\ c.before > 0 /\ c.units = c.before
          /\ o.side = "sell" /\ o.units > 0 /\ units < 0

----------------------------------------------------------------------------
(* C6 *)

\* the change of cash the cost-adjusted primitive makes
BuyDelta(u, price) == -((u * price) * (100 + ptc) + Cents(ftc))
SellDelta(u, price) == (u * price) * (100 - ptc) - Cents(ftc)

\* the change of cash of a fill, were every fill cost-adjusted: the
\* close-out as a sale of a long holding or a purchase covering a short
\* one, and no fill at all when nothing is held
CostAdjusted(f) ==
    CASE f.side = "buy" -> BuyDelta(f.units, f.price)
      [] f.side = "sell" -> SellDelta(f.units, f.price)
      [] f.side = "close" ->
            IF f.before > 0 THEN SellDelta(f.before, f.price)
            ELSE IF f.before < 0 THEN BuyDelta(-f.before, f.price)
            ELSE 0

RECURSIVE SumCostAdjusted(_)
SumCostAdjusted(fs) ==
    IF fs = <<>> THEN 0 ELSE CostAdjusted(Head(fs)) + SumCostAdjusted(Tail(fs))

RECURSIVE SumUnits(_)
SumUnits(fs) ==
    IF fs = <<>> THEN 0
    ELSE (After(Head(fs)) - Head(fs).before) + SumUnits(Tail(fs))

\* C6: every fill, the close-out included, is the cost-adjusted primitive:
\* cash and units are at every moment what the fills applied so far make
\* them.  Stated for inputs the interface admits.
C6_EveryFillCostAdjusted ==
    WellFormed =>
        /\ amount = initial_amount + SumCostAdjusted(fills)
        /\ units = SumUnits(fills)

----------------------------------------------------------------------------
(* C7 *)

\* sell proceeds minus buy costs of a fill, with no cost adjustment
Unadjusted(f) ==
    CASE f.side = "buy" -> -(f.units * f.price)
      [] f.side = "sell" -> f.units * f.price
      [] f.side = "close" -> f.before * f.price

RECURSIVE SumUnadjusted(_)
SumUnadjusted(fs) ==
    IF fs = <<>> THEN 0 ELSE Unadjusted(Head(fs)) + SumUnadjusted(Tail(fs))

\* C7: with both costs 0 the final balance is the initial capital plus the
\* unadjusted sell proceeds minus buy costs of the run's fills.
C7_ZeroCostBalance ==
    (pc = "done" /\ ftc = 0 /\ ptc = 0) =>
        amount = initial_amount + Cents(SumUnadjusted(fills))

\* a zero-cost run bought, sold, and was closed out holding units, and
\* ended with another balance than it started with
C7_Witness ==
    /\ pc = "done" /\ ftc = 0 /\ ptc = 0 /\ PositivePrices
    /\ OrderFills >= 2
    /\ \E i \in 1 .. Len(fills) : fills[i].side = "sell" /\ fills[i].units > 0
    /\ LastFill.before # 0
    /\ amount # initial_amount

----------------------------------------------------------------------------
(* C8 *)

\* C8: converting a cash budget at a price <= 0 trades zero units and
\* raises nothing.  Stated for cost settings the interface admits.
C8_DegeneratePriceFailsClosed ==
    ValidCosts =>
        /\ pc \notin {"OverflowError(int)", "ValueError(int)"}
        /\ \A i \in 1 .. Len(fills) :
              (fills[i].budget /\ fills[i].price <= 0) => fills[i].units = 0

----------------------------------------------------------------------------
(* C9 *)

InvalidParameter ==
    \/ ftc < 0
    \/ ptc \notin 0 .. 99
    \/ \E w \in WindowsOf(run) : w <= 0

\* C9: a run with an invalid parameter applies no fill and does not
\* complete: it is rejected before its loop.  Stated for series of
\* positive prices.
C9_InvalidParameterRejected ==
    (PositivePrices /\ run # NoRun /\ InvalidParameter) =>
        fills = <<>> /\ trades = 0 /\ pc # "done"

----------------------------------------------------------------------------
(* C10 *)

\* a window that is not a positive integer smaller than the series length
BadWindow(w) == w <= 0 \/ w >= NData

\* C10: a run with such a window ends with no trade counted and the
\* initial capital as cash.  Stated for inputs the interface admits.
C10_BadWindowNoTrades ==
    (WellFormed /\ Ended /\ \E w \in WindowsOf(run) : BadWindow(w)) =>
        trades = 0 /\ amount = initial_amount

----------------------------------------------------------------------------
(* C11 *)

\* the prices of the prepared series rise from every bar to the next
StrictlyIncreasing ==
    \A b \in 0 .. (NData - 2) : get_date_price(b) < get_date_price(b + 1)

\* the initial capital pays for at least one unit at every bar
Affordable == \A b \in 0 .. (NData - 1) : get_date_price(b) <= Capital

ZeroCosts == ftc = 0 /\ ptc = 0

Min(S) == CHOOSE x \in S : \A y \in S : x <= y

\* the bars at which the short average is above the long one
CrossBars(r) == { b \in 0 .. (NData - 1) : SMA1_gt_SMA2(r[2], r[3], b) }

\* C11: an SMA-cross run with a short and a long window over a strictly
\* increasing series longer than the long window, at zero costs, applies
\* exactly two fills: one buy, at the first bar at which the short average
\* is above the long one, and the close-out at the last bar; and it ends
\* with more cash than the initial capital.  Stated for series the capital
\* can afford.
C11_RisingSeriesOneBuy ==
    (/\ pc = "done"
     /\ Strategy(run) = "sma" /\ 1 <= run[2] /\ run[2] < run[3] /\ run[3] < NData
     /\ ZeroCosts /\ StrictlyIncreasing /\ Affordable)
    => /\ Len(fills) = 2
       /\ fills[1].side = "buy"
       /\ CrossBars(run) # {}
       /\ fills[1].bar = Min(CrossBars(run))
       /\ fills[2].side = "close"
       /\ fills[2].bar = NData - 1
       /\ amount > initial_amount

----------------------------------------------------------------------------
(* C12 *)

\* every log return of the prepared series is positive
AllReturnsPositive == \A i \in 1 .. NData : data[i].price > data[i].prior

\* the bars at which the rolling mean return is defined
MomentumBars(r) == { b \in 0 .. (NData - 1) : MomentumDefined(r[2], b) }

BuyFills == SelectSeq(fills, LAMBDA f : f.side = "buy")
SellFills == SelectSeq(fills, LAMBDA f : f.side = "sell")

\* C12: a momentum run over a series whose returns are all positive and
\* which is longer than the momentum window applies exactly one buy fill,
\* at the end of warm-up (the first bar at which the rolling mean return is
\* defined), applies no sell fill before the close-out, and ends with a net
\* performance above 0.  Stated for zero costs and series the capital can
\* afford.
C12_PositiveReturnsOneBuy ==
    (/\ pc = "done"
     /\ Strategy(run) = "momentum" /\ 1 <= run[2] /\ run[2] < NData
     /\ ZeroCosts /\ AllReturnsPositive /\ Affordable)
    => /\ Len(BuyFills) = 1
       /\ MomentumBars(run) # {}
       /\ BuyFills[1].bar = Min(MomentumBars(run))
       /\ Len(SellFills) = 0
       /\ amount > initial_amount

----------------------------------------------------------------------------
(* C13 *)

\* a mean-reversion run under the long-short policy
LongShortMeanReversion ==
    policy = "LongShort" /\ Strategy(run) = "mean_reversion"

\* the bar the loop is about to evaluate is more than the threshold above
\* its moving average
AboveBand == NextBar < NData /\ price_gt_SMA_plus(run[2], run[3], NextBar)
BelowBand == NextBar < NData /\ price_lt_SMA_minus(run[2], run[3], NextBar)

\* the series alternates between two prices, the window is even, so that
\* the moving average is constant, and every bar with a moving average is
\* more than the threshold away from it
Oscillating ==
    /\ NData >= 2 /\ get_date_price(0) # get_date_price(1)
    /\ \A b \in 0 .. (NData - 3) : get_date_price(b + 2) = get_date_price(b)
    /\ run[2] % 2 = 0 /\ run[3] >= 0
    /\ \A b \in (run[2] - 1) .. (NData - 1) :
           price_gt_SMA_plus(run[2], run[3], b)
               \/ price_lt_SMA_minus(run[2], run[3], b)

\* C13: in a mean-reversion run under the long-short policy over a series
\* that oscillates around a constant moving average by more than the
\* threshold, a long position that sees a price above SMA + threshold is
\* short at the end of that bar, and a short position that sees a price
\* below SMA - threshold is long at the end of that bar, each by a flip of
\* exactly two fills on that bar, the close and then the open.
C13_MeanReversionFlips ==
    [][(/\ pc = "loop" /\ LongShortMeanReversion /\ Oscillating
        /\ \/ position = 1 /\ AboveBand
           \/ position = -1 /\ BelowBand)
       => /\ position' = -position
          /\ Len(fills') = Len(fills) + 2
          /\ FlipClose.bar = NextBar /\ FlipOpen.bar = NextBar
          /\ ~FlipClose.budget /\ FlipOpen.budget]_vars

----------------------------------------------------------------------------
(* C14 *)

\* a step of the loop that takes the position from flat to long
EntersLongFromFlat == pc = "loop" /\ position = 0 /\ position' = 1

\* C14: every entry from flat into long, in any strategy under either
\* policy, applies one buy fill of floor(cash / price) units, cash being
\* self.amount when the bar is evaluated.  Stated for positive prices,
\* admissible costs and non-negative cash.
C14_EntrySizedByCash ==
    [][(EntersLongFromFlat /\ WellFormed /\ amount >= 0)
       => /\ Len(fills') = Len(fills) + 1
          /\ fills'[Len(fills')].side = "buy"
          /\ fills'[Len(fills')].bar = bar'
          /\ fills'[Len(fills')].units = amount \div Cents(get_date_price(bar'))
      ]_vars

----------------------------------------------------------------------------
(* C15 *)

Max(S) == CHOOSE x \in S : \A y \in S : y <= x

\* the first bar at which every rolling column of the run is defined: a
\* window of w rows is complete at index w - 1
FirstDefinedBar(r) == Max(WindowsOf(r)) - 1

\* C15: the loop evaluates the bars from the first one at which all rolling
\* indicators of the run are defined through the last one, in ascending
\* order and each once: the first bar it binds is that first defined bar,
\* every later one is the successor of the one before, and the run
\* completes only after the last bar.  Stated for inputs and windows the
\* interface admits.
C15_EvaluatesEveryDefinedBar ==
    [][(pc = "loop" /\ WellFormed /\ ValidWindows(run))
       => /\ (bar = Unbound /\ bar' # Unbound) => bar' = FirstDefinedBar(run)
          /\ (bar # Unbound /\ bar' # bar) => bar' = bar + 1
          /\ pc' = "done" => bar = NData - 1
      ]_vars

----------------------------------------------------------------------------
(* C16 *)

\* the fills a step appended to the narration
NewFills == SubSeq(fills', Len(fills) + 1, Len(fills'))

\* a fill that opens a position: its unit count was converted from a budget
Opens(f, side) == f.side = side /\ f.budget

\* C16: in every run no buy-to-open fill is applied while the position is
\* long, no sell-to-open fill while it is short, no sell fill while flat
\* under the long-only policy, and no bar applies both an entry to long and
\* an entry to short.
C16_NoIllegalIntent ==
    [][(pc = "loop" /\ Len(fills') > Len(fills) /\ pc' # "done")
       => /\ \A k \in 1 .. Len(NewFills) :
                /\ Opens(NewFills[k], "buy") => position # 1
                /\ Opens(NewFills[k], "sell") => position # -1
                /\ (policy = "LongOnly" /\ NewFills[k].side = "sell")
                       => position = 1
          /\ ~ \E j, k \in 1 .. Len(NewFills) :
                 Opens(NewFills[j], "buy") /\ Opens(NewFills[k], "sell")
      ]_vars

\* a short holding was bought back and a long one opened on the same bar,
\* and the run went on
C16_Witness ==
    /\ pc = "loop" /\ policy = "LongShort" /\ position = 1 /\ Len(fills) >= 3
    /\ LET c == fills[Len(fills) - 1]
           o == fills[Len(fills)]
       IN /\ c.bar = bar /\ o.bar = bar
          /\ c.side = "buy" /\ ~c.budget /\ c.before < 0
          /\ o.side = "buy" /\ o.budget /\ o.units > 0

----------------------------------------------------------------------------
(* C17 *)

\* the sign of the rolling mean return at bar b, where it is defined
MeanSign(m, b) ==
    LET num == ProdPrice(b - m + 1, b)
        den == ProdPrior(b - m + 1, b)
    IN  IF num > den THEN 1 ELSE IF num < den THEN -1 ELSE 0

\* the loop of a momentum run is about to evaluate a bar with a rolling mean
MomentumStep ==
    /\ pc = "loop" /\ Strategy(run) = "momentum"
    /\ NextBar < NData /\ MomentumDefined(run[2], NextBar)

\* C17: on a bar whose rolling mean return is exactly 0 a long position
\* under the long-only policy is kept without a fill, while under the
\* long-short policy a long or flat position goes short; on a mean below 0
\* long-only exits a long position to flat and long-short ends the bar
\* short; on a mean above 0 both policies end the bar long.
C17_MomentumBoundary ==
    [][MomentumStep =>
         LET sign == MeanSign(run[2], NextBar) IN
         /\ (sign = 0 /\ policy = "LongOnly" /\ position = 1)
                => position' = 1 /\ fills' = fills
         /\ (sign = 0 /\ policy = "LongShort" /\ position \in {0, 1})
                => position' = -1
         /\ (sign = -1 /\ policy = "LongOnly" /\ position = 1)
                => position' = 0
         /\ (sign = -1 /\ policy = "LongShort") => position' = -1
         /\ sign = 1 => position' = 1
      ]_vars

\* a long-only momentum run kept its long position over a bar whose rolling
\* mean return is 0
C17_Witness ==
    /\ pc = "loop" /\ policy = "LongOnly" /\ Strategy(run) = "momentum"
    /\ bar # Unbound /\ MomentumDefined(run[2], bar)
    /\ MeanSign(run[2], bar) = 0
    /\ position = 1 /\ fills # <<>> /\ LastFill.bar < bar

----------------------------------------------------------------------------
(* C18 *)

Sign(x) == IF x > 0 THEN 1 ELSE IF x < 0 THEN -1 ELSE 0

\* C18: after every bar of a run the position state agrees with the sign
\* of the units held: flat with no units, long with units > 0, short with
\* units < 0.  Stated for inputs and windows the interface admits.
C18_PositionMatchesUnits ==
    (pc = "loop" /\ bar # Unbound /\ WellFormed /\ ValidWindows(run))
        => position = Sign(units)

----------------------------------------------------------------------------
(* C19 *)

\* the deviation threshold of a mean-reversion run is not negative
ThresholdNotNegative == Strategy(run) = "mean_reversion" => run[3] >= 0

\* C19: under the long-only policy the units held are never negative.
\* Stated for inputs the interface admits and thresholds >= 0.
C19_LongOnlyUnitsNotNegative ==
    (policy = "LongOnly" /\ WellFormed /\ ThresholdNotNegative) => units >= 0

----------------------------------------------------------------------------
(* C20 *)

\* the transaction costs of an order: u * p * ptc + ftc
OrderCosts(f) == (f.units * f.price) * ptc + Cents(ftc)

RECURSIVE SumOrderCosts(_)
SumOrderCosts(fs) ==
    IF fs = <<>> THEN 0 ELSE OrderCosts(Head(fs)) + SumOrderCosts(Tail(fs))

\* a step whose fills are buy and sell orders of u >= 0 units
OrdersApplied ==
    /\ pc = "loop" /\ Len(fills') > Len(fills)
    /\ \A k \in 1 .. Len(NewFills) : IsOrder(NewFills[k]) /\ NewFills[k].units >= 0

\* C20: the buy and sell fills of u >= 0 units that a bar applies change
\* the net wealth valued at that bar's price, cash + units * p, by exactly
\* -(u * p * ptc + ftc) each; with admissible costs and a positive price
\* they do not increase it, and with zero costs they leave it unchanged.
C20_FillCostsNetWealth ==
    [][OrdersApplied =>
         LET before == net_wealth(amount, units, bar')
             after == net_wealth(amount', units', bar')
         IN /\ after - before = -SumOrderCosts(NewFills)
            /\ (ValidCosts /\ get_date_price(bar') > 0) => after <= before
            /\ ZeroCosts => after = before
      ]_vars

\* one order of u > 0 units was applied at costs above zero, and the net
\* wealth is the initial capital less the order's costs
C20_Witness ==
    /\ pc = "loop" /\ Len(fills) = 1 /\ IsOrder(LastFill)
    /\ LastFill.units > 0 /\ ftc > 0 /\ ptc > 0
    /\ net_wealth(amount, units, bar) = initial_amount - OrderCosts(LastFill)
    /\ net_wealth(amount, units, bar) < initial_amount

====
